---- MODULE Spec2Model ----
(***************************************************************************)
(* Model of wuf::Graph (src/src/lib.rs): a weighted union-find with path   *)
(* compression.  The state is the pair of vectors `nodes` and `sizes`;     *)
(* the operations are Graph::new, Graph::connected and Graph::connect,     *)
(* all built on the private Graph::root.                                   *)
(***************************************************************************)
EXTENDS Integers, FiniteSets, Sequences, TLC

\* Largest node count given to Graph::new in the model.
MaxN == 4

\* Number of ids beyond the last valid one that calls are made with.
ExtraIds == 1

VARIABLES
    nodes,   \* Graph.nodes: parent of each node, indexed 0..n-1
    sizes,   \* Graph.sizes: stored weight of each node, indexed 0..n-1
    pairs,   \* history: the reference partition generated by the pairs
             \* passed to connect so far (node -> least node of its class)
    last,    \* history: the last call made, its arguments and its result
    given,   \* history: the n given to Graph::new
    run      \* the call in progress when a call is followed statement by
             \* statement: its position, arguments and locals

vars == <<nodes, sizes, pairs, last, given, run>>

\* A count that reports the number of components instead of the number of
\* nodes.
countRoots(ns) == Cardinality({i \in DOMAIN ns : ns[i] = i})

\* Graph::count: self.nodes.len()
count(ns) == Cardinality(DOMAIN ns)

\* The valid node ids of a graph whose parent vector is ns: [0, n).
Ids(ns) == DOMAIN ns

\* Vec indexing v[i]: i < v.len(), otherwise the access panics with
\* "index out of bounds".
InBounds(v, i) == i \in DOMAIN v

----------------------------------------------------------------------------
(* Graph::root, lines 100-108.  The loop is translated as written:         *)
(*     let mut root = id;                                                  *)
(*     while root != self.nodes[id] {                                      *)
(*         self.nodes[root] = self.nodes[self.nodes[root]];                *)
(*         root = self.nodes[id];                                          *)
(*     }                                                                   *)
(*     root                                                                *)
(* The result is the vector after the call, the value returned and        *)
(* whether the call returned (ok) or panicked on an index out of bounds.   *)

\* The loop condition, line 102.
rootCond(ns, id, r) == r # ns[id]

\* The indices the condition reads are in bounds.
rootCondInBounds(ns, id) == InBounds(ns, id)

\* The indices one iteration of the body reads and writes are in bounds.
rootBodyInBounds(ns, id, r) ==
    /\ InBounds(ns, r)
    /\ InBounds(ns, ns[r])
    /\ InBounds(ns, id)

\* A body that lacks line 105, `root = self.nodes[id]`: root stays as it was.
rootBodyKeepsRoot(ns, id, r) ==
    LET ns2 == [ns EXCEPT ![r] = ns[ns[r]]]
    IN  [nodes |-> ns2, root |-> r]

\* One iteration of the body, lines 104-105: the vector and the local root
\* after it.
rootBody(ns, id, r) ==
    LET ns2 == [ns EXCEPT ![r] = ns[ns[r]]]
    IN  [nodes |-> ns2, root |-> ns2[id]]

RECURSIVE rootLoop(_, _, _)
rootLoop(ns, id, r) ==
    IF ~rootCondInBounds(ns, id)
    THEN [nodes |-> ns, ret |-> r, ok |-> FALSE]
    ELSE IF rootCond(ns, id, r)
    THEN IF ~rootBodyInBounds(ns, id, r)
         THEN [nodes |-> ns, ret |-> r, ok |-> FALSE]
         ELSE LET s == rootBody(ns, id, r)
              IN  rootLoop(s.nodes, id, s.root)
    ELSE [nodes |-> ns, ret |-> r, ok |-> TRUE]

root(ns, id) == rootLoop(ns, id, id)

\* Graph::connected, lines 61-64: self.root(a) == self.root(b), the left
\* operand evaluated first, each call working on the vector the previous
\* one left.  A panic in either root call ends the call.
connected(ns, a, b) ==
    LET ra == root(ns, a)
        rb == root(ra.nodes, b)
    IN  IF ~ra.ok THEN [nodes |-> ra.nodes, ret |-> FALSE, ok |-> FALSE]
        ELSE IF ~rb.ok THEN [nodes |-> rb.nodes, ret |-> FALSE, ok |-> FALSE]
        ELSE [nodes |-> rb.nodes, ret |-> (ra.ret = rb.ret), ok |-> TRUE]

\* A link that counts the absorbed root itself in the surviving root's size:
\* sizes[x] += sizes[y] + 1.
linkCounting(ns, sz, a_root, b_root) ==
    IF a_root = b_root
    THEN [nodes |-> ns, sizes |-> sz, ok |-> TRUE]
    ELSE IF sz[a_root] < sz[b_root]
    THEN [nodes |-> [ns EXCEPT ![a_root] = b_root],
          sizes |-> [sz EXCEPT ![b_root] = sz[b_root] + sz[a_root] + 1],
          ok |-> TRUE]
    ELSE [nodes |-> [ns EXCEPT ![b_root] = a_root],
          sizes |-> [sz EXCEPT ![a_root] = sz[a_root] + sz[b_root] + 1],
          ok |-> TRUE]

\* Graph::connect after the two root calls, lines 82-93.
link(ns, sz, a_root, b_root) ==
    IF a_root = b_root
    THEN [nodes |-> ns, sizes |-> sz, ok |-> TRUE]
    ELSE IF ~(InBounds(sz, a_root) /\ InBounds(sz, b_root))
    THEN [nodes |-> ns, sizes |-> sz, ok |-> FALSE]
    ELSE IF sz[a_root] < sz[b_root]
    THEN IF ~InBounds(ns, a_root)
         THEN [nodes |-> ns, sizes |-> sz, ok |-> FALSE]
         ELSE [nodes |-> [ns EXCEPT ![a_root] = b_root],
               sizes |-> [sz EXCEPT ![b_root] = sz[b_root] + sz[a_root]],
               ok |-> TRUE]
    ELSE IF ~InBounds(ns, b_root)
         THEN [nodes |-> ns, sizes |-> sz, ok |-> FALSE]
         ELSE [nodes |-> [ns EXCEPT ![b_root] = a_root],
               sizes |-> [sz EXCEPT ![a_root] = sz[a_root] + sz[b_root]],
               ok |-> TRUE]

\* Graph::connect, lines 79-94.
connect(ns, sz, a, b) ==
    LET ra == root(ns, a)
        rb == root(ra.nodes, b)
    IN  IF ~ra.ok THEN [nodes |-> ra.nodes, sizes |-> sz, ok |-> FALSE]
        ELSE IF ~rb.ok THEN [nodes |-> rb.nodes, sizes |-> sz, ok |-> FALSE]
        ELSE link(rb.nodes, sz, ra.ret, rb.ret)

\* A constructor that fills nodes the way it fills sizes: vec![0; n].
newAllZero(n) ==
    [nodes |-> [i \in 0..(n - 1) |-> 0],
     sizes |-> [i \in 0..(n - 1) |-> 0]]

\* A constructor that numbers the nodes from one: (1..=n).
newOneBased(n) ==
    [nodes |-> [i \in 0..(n - 1) |-> i + 1],
     sizes |-> [i \in 0..(n - 1) |-> 0]]

\* Graph::new, lines 29-34: nodes = [0, 1, .., n-1], sizes = [0; n].
new(n) ==
    [nodes |-> [i \in 0..(n - 1) |-> i],
     sizes |-> [i \in 0..(n - 1) |-> 0]]

----------------------------------------------------------------------------
\* Reference partition: merging the classes of a and b in p.
Min(x, y) == IF x < y THEN x ELSE y

Merge(p, a, b) ==
    LET m == Min(p[a], p[b])
    IN  [x \in DOMAIN p |-> IF p[x] = p[a] \/ p[x] = p[b] THEN m ELSE p[x]]

----------------------------------------------------------------------------
\* No call is being followed statement by statement.
Idle == [pc |-> "idle", op |-> "none", a |-> 0, b |-> 0,
         root |-> 0, a_root |-> 0, iterated |-> FALSE]

Init ==
    \E n \in 0..MaxN :
        /\ nodes = new(n).nodes
        /\ sizes = new(n).sizes
        /\ pairs = [i \in 0..(n - 1) |-> i]
        /\ last = [op |-> "new", a |-> n, b |-> n, ret |-> FALSE,
                   num |-> 0, ok |-> TRUE]
        /\ given = n
        /\ run = Idle

\* A call graph.count().
Count ==
    /\ last' = [op |-> "count", a |-> 0, b |-> 0, ret |-> FALSE,
                num |-> count(nodes), ok |-> TRUE]
    /\ UNCHANGED <<nodes, sizes, pairs, given, run>>

\* A call graph.connected(a, b).
Connected(a, b) ==
    LET c == connected(nodes, a, b)
    IN  /\ nodes' = c.nodes
        /\ last' = [op |-> "connected", a |-> a, b |-> b, ret |-> c.ret,
                    num |-> 0, ok |-> c.ok]
        /\ UNCHANGED <<sizes, pairs, given, run>>

\* A call graph.connect(a, b).
Connect(a, b) ==
    LET c == connect(nodes, sizes, a, b)
    IN  /\ nodes' = c.nodes
        /\ sizes' = c.sizes
        /\ pairs' = IF a \in DOMAIN pairs /\ b \in DOMAIN pairs
                    THEN Merge(pairs, a, b)
                    ELSE pairs
        /\ last' = [op |-> "connect", a |-> a, b |-> b, ret |-> FALSE,
                    num |-> 0, ok |-> c.ok]
        /\ UNCHANGED <<given, run>>

\* The calls with valid ids.
Next ==
    \/ \E a, b \in Ids(nodes) : Connected(a, b)
    \/ \E a, b \in Ids(nodes) : Connect(a, b)
    \/ Count

Spec == Init /\ [][Next]_vars

----------------------------------------------------------------------------
(* Calls with an id outside [0, n).                                        *)

\* The ids calls are made with: the valid ones and the first invalid ones.
Args(ns) == 0..(count(ns) + ExtraIds - 1)

\* A call graph.connected(a, b) in which a or b is not a valid id.
ConnectedBad(a, b) ==
    /\ a \notin Ids(nodes) \/ b \notin Ids(nodes)
    /\ Connected(a, b)

\* A call graph.connect(a, b) in which a or b is not a valid id.
ConnectBad(a, b) ==
    /\ a \notin Ids(nodes) \/ b \notin Ids(nodes)
    /\ Connect(a, b)

NextErr ==
    \/ Next
    \/ \E a, b \in Args(nodes) : ConnectedBad(a, b)
    \/ \E a, b \in Args(nodes) : ConnectBad(a, b)

\* The calls with valid and invalid ids; a panicked call is caught by the
\* caller, who goes on using the graph.
SpecErr == Init /\ [][NextErr]_vars

----------------------------------------------------------------------------
(* One call of root, connected or connect followed statement by statement. *)
(* The call starts from any parent vector whose entries are valid indices  *)
(* (chains of any length and cycles included), with every size 0; these    *)
(* include all the states the calls with valid ids reach.  The ids are     *)
(* valid, so no index is out of bounds.                                    *)

InitRoot ==
    \E n \in 1..MaxN :
        /\ nodes \in [0..(n - 1) -> 0..(n - 1)]
        /\ sizes = [i \in 0..(n - 1) |-> 0]
        /\ pairs = [i \in 0..(n - 1) |-> i]
        /\ last = [op |-> "new", a |-> n, b |-> n, ret |-> FALSE,
                   num |-> 0, ok |-> TRUE]
        /\ given = n
        /\ \E op \in {"root", "connected", "connect"} :
           \E a, b \in 0..(n - 1) :
               /\ op = "root" => b = a
               \* line 101 of the first root call: let mut root = id
               /\ run = [pc |-> "rootA", op |-> op, a |-> a, b |-> b,
                         root |-> a, a_root |-> 0, iterated |-> FALSE]

\* The id of the root call in progress.
RunId == IF run.pc = "rootA" THEN run.a ELSE run.b

\* Lines 102-105: the condition holds and the body runs once.
RootIter ==
    /\ run.pc \in {"rootA", "rootB"}
    /\ rootCond(nodes, RunId, run.root)
    /\ LET s == rootBody(nodes, RunId, run.root)
       IN  /\ nodes' = s.nodes
           /\ run' = [run EXCEPT !.root = s.root, !.iterated = TRUE]
    /\ UNCHANGED <<sizes, pairs, last, given>>

\* Lines 102, 107: the condition fails and a call of root alone returns.
RootReturn ==
    /\ run.pc = "rootA"
    /\ run.op = "root"
    /\ ~rootCond(nodes, RunId, run.root)
    /\ run' = [run EXCEPT !.pc = "done"]
    /\ UNCHANGED <<nodes, sizes, pairs, last, given>>

\* Lines 63, 80-81: root(a) returns into connected or connect, which goes on
\* to root(b).
RootAReturn ==
    /\ run.pc = "rootA"
    /\ run.op # "root"
    /\ ~rootCond(nodes, RunId, run.root)
    /\ run' = [run EXCEPT !.pc = "rootB", !.a_root = run.root,
                          !.root = run.b]
    /\ UNCHANGED <<nodes, sizes, pairs, last, given>>

\* Line 63: root(b) returns into connected, which compares and returns.
ConnectedReturn ==
    /\ run.pc = "rootB"
    /\ run.op = "connected"
    /\ ~rootCond(nodes, RunId, run.root)
    /\ run' = [run EXCEPT !.pc = "done"]
    /\ last' = [op |-> "connected", a |-> run.a, b |-> run.b,
                ret |-> (run.a_root = run.root), num |-> 0, ok |-> TRUE]
    /\ UNCHANGED <<nodes, sizes, pairs, given>>

\* Lines 81-94: root(b) returns into connect, which links and returns.
ConnectReturn ==
    /\ run.pc = "rootB"
    /\ run.op = "connect"
    /\ ~rootCond(nodes, RunId, run.root)
    /\ LET c == link(nodes, sizes, run.a_root, run.root)
       IN  /\ nodes' = c.nodes
           /\ sizes' = c.sizes
    /\ pairs' = Merge(pairs, run.a, run.b)
    /\ run' = [run EXCEPT !.pc = "done"]
    /\ last' = [op |-> "connect", a |-> run.a, b |-> run.b,
                ret |-> FALSE, num |-> 0, ok |-> TRUE]
    /\ UNCHANGED given

NextRoot ==
    \/ RootIter
    \/ RootReturn
    \/ RootAReturn
    \/ ConnectedReturn
    \/ ConnectReturn

\* The thread running the call keeps executing: nothing suspends or blocks.
SpecRoot == InitRoot /\ [][NextRoot]_vars /\ WF_vars(NextRoot)

----------------------------------------------------------------------------
(* The forest the parent vector is meant to encode.                        *)

\* The root at which the parent chain starting from x ends, as a set: {i}
\* for the first i on the chain with ns[i] = i, {} when the chain runs into
\* a cycle and reaches no root.
RECURSIVE chase(_, _, _)
chase(ns, x, k) ==
    IF ns[x] = x THEN {x}
    ELSE IF k = 0 THEN {}
    ELSE chase(ns, ns[x], k - 1)

ChainEnd(ns, x) == chase(ns, x, count(ns))

\* x and y are in the same tree: their parent chains lead to the same root.
SameTree(ns, x, y) ==
    /\ ChainEnd(ns, x) # {}
    /\ ChainEnd(ns, x) = ChainEnd(ns, y)

\* The roots: nodes i with nodes[i] == i.
Roots(ns) == {i \in Ids(ns) : ns[i] = i}

NumRoots(ns) == Cardinality(Roots(ns))

\* The number of nodes of the tree rooted at r.
TreeSize(ns, r) == Cardinality({x \in Ids(ns) : ChainEnd(ns, x) = {r}})

\* The answers connected(x, y) gives from the state with parent vector ns.
Answers(ns) == [x \in Ids(ns), y \in Ids(ns) |-> connected(ns, x, y).ret]

----------------------------------------------------------------------------
\* C1: a connect(a, b) immediately followed by connected(a, b) makes the
\* query return true.
C1_ConnectThenConnected ==
    [][(/\ last.op = "connect"
        /\ last'.op = "connected"
        /\ last'.a = last.a
        /\ last'.b = last.b) => last'.ret]_vars

\* C2: connected(a, b) returns true exactly when a and b are related by the
\* equivalence closure of the pairs passed to connect so far.
C2_AgreesWithReference ==
    \A a, b \in Ids(nodes) :
        connected(nodes, a, b).ret <=> (pairs[a] = pairs[b])

\* C3: connected(x, x) returns true for every valid x in every reachable
\* state.
C3_Reflexive ==
    \A x \in Ids(nodes) : connected(nodes, x, x).ret

\* C4: from one and the same state, connected(a, b) and connected(b, a)
\* return the same boolean.
C4_Symmetric ==
    \A a, b \in Ids(nodes) :
        connected(nodes, a, b).ret = connected(nodes, b, a).ret

\* C5: connected(a, b) called again right after connected(a, b), with no
\* connect in between, returns what the previous call returned.
C5_IdempotentQuery ==
    [][(/\ last.op = "connected"
        /\ last'.op = "connected"
        /\ last'.a = last.a
        /\ last'.b = last.b) => (last'.ret = last.ret)]_vars

\* C6: two nodes in the same tree stay in the same tree in every later
\* state, and a connect(a, b) either merges exactly the tree of a with the
\* tree of b or leaves the partition into trees as it was.
C6_ConnectivityKept ==
    [][/\ \A x, y \in Ids(nodes) :
              SameTree(nodes, x, y) => SameTree(nodes', x, y)
       /\ last'.op = "connect" =>
              \A x, y \in Ids(nodes) :
                  SameTree(nodes', x, y) <=>
                      \/ SameTree(nodes, x, y)
                      \/ /\ SameTree(nodes, x, last'.a)
                         /\ SameTree(nodes, y, last'.b)
                      \/ /\ SameTree(nodes, x, last'.b)
                         /\ SameTree(nodes, y, last'.a)]_vars

\* C7: connect(a, b) leaves the number of roots unchanged when a and b were
\* in the same component and decreases it by exactly one otherwise.
C7_RootCount ==
    [][last'.op = "connect" =>
          IF SameTree(nodes, last'.a, last'.b)
          THEN NumRoots(nodes') = NumRoots(nodes)
          ELSE NumRoots(nodes') = NumRoots(nodes) - 1]_vars

\* C8: after connect(a, b) followed by connect(b, c), connected(a, c)
\* returns true.
C8_Transitive ==
    \A a, b, c \in Ids(nodes) :
        LET s1 == connect(nodes, sizes, a, b)
            s2 == connect(s1.nodes, s1.sizes, b, c)
        IN  connected(s2.nodes, a, c).ret

\* C9: connect(a, b); connect(a, b) leaves a state that answers every
\* connected(x, y) as the state after a single connect(a, b) does.
C9_IdempotentConnect ==
    \A a, b \in Ids(nodes) :
        LET s1 == connect(nodes, sizes, a, b)
            s2 == connect(s1.nodes, s1.sizes, a, b)
        IN  Answers(s2.nodes) = Answers(s1.nodes)

\* C10: immediately after Graph::new(n), connected(x, y) returns true
\* exactly when x == y.
C10_InitiallyIsolated ==
    last.op = "new" =>
        \A x, y \in Ids(nodes) : connected(nodes, x, y).ret <=> (x = y)

C10_Witness ==
    /\ last.op = "new"
    /\ count(nodes) >= 2
    /\ connected(nodes, 0, 0).ret
    /\ ~connected(nodes, 0, 1).ret

\* C11: every entry of nodes is a valid index, and connected and connect
\* called with valid ids never fail on an index out of bounds.
C11_NoFailure ==
    /\ \A i \in Ids(nodes) : nodes[i] \in Ids(nodes)
    /\ last.ok
    /\ \A a, b \in Ids(nodes) :
           /\ connected(nodes, a, b).ok
           /\ connect(nodes, sizes, a, b).ok

C11_Witness ==
    /\ last.op = "connect"
    /\ last.ok
    /\ \E i \in Ids(nodes) : nodes[nodes[i]] # nodes[i]

\* C13: count() returns the n given to Graph::new(n) in every reachable
\* state, and a call of count() changes neither vector.
C13_CountIsN ==
    /\ [](/\ count(nodes) = given
          /\ last.op = "count" => last.num = given)
    /\ [][last'.op = "count" => (nodes' = nodes /\ sizes' = sizes)]_vars

C13_Witness ==
    /\ last.op = "count"
    /\ last.num = given
    /\ given >= 2
    /\ \E i \in Ids(nodes) : nodes[i] # i

\* C14: following parent pointers from any node reaches a root; the parent
\* vector has no cycle other than a root pointing to itself.
C14_Forest ==
    \A x \in Ids(nodes) : ChainEnd(nodes, x) # {}

\* C15: root(id) returns a node r with nodes[r] == r, the node at which the
\* parent chain starting from id ends.
C15_RootIsRepresentative ==
    \A id \in Ids(nodes) :
        LET r == root(nodes, id)
        IN  /\ r.nodes[r.ret] = r.ret
            /\ ChainEnd(nodes, id) = {r.ret}

\* C16: a call root(id) or connected(a, b) leaves the set of roots and the
\* root each node's parent chain leads to as they were before the call.
C16_QueriesKeepPartition ==
    /\ [](\A id \in Ids(nodes) :
              LET r == root(nodes, id)
              IN  /\ Roots(r.nodes) = Roots(nodes)
                  /\ \A x \in Ids(nodes) :
                         ChainEnd(r.nodes, x) = ChainEnd(nodes, x))
    /\ [][last'.op = "connected" =>
              /\ Roots(nodes') = Roots(nodes)
              /\ \A x \in Ids(nodes) :
                     ChainEnd(nodes', x) = ChainEnd(nodes, x)]_vars

\* C17: when connect makes a root r1 the child of another root r2, the tree
\* of r1 has no more nodes than the tree of r2.
C17_BalancedLinking ==
    [][last'.op = "connect" =>
          \A r1, r2 \in Roots(nodes) :
              (r1 # r2 /\ nodes'[r1] = r2) =>
                  TreeSize(nodes, r1) <= TreeSize(nodes, r2)]_vars

\* C18: for every root r, sizes[r] is the number of nodes other than r whose
\* parent chain leads to r.
C18_SizeBookkeeping ==
    \A r \in Roots(nodes) : sizes[r] = TreeSize(nodes, r) - 1

C12_InvalidIdFails ==
    [][(/\ last'.op \in {"connected", "connect"}
        /\ last'.a \notin Ids(nodes) \/ last'.b \notin Ids(nodes)) =>
           /\ ~last'.ok
           /\ \A x, y \in Ids(nodes) :
                  SameTree(nodes', x, y) <=> SameTree(nodes, x, y)]_vars

\* C19: every call of root, connected and connect with valid ids, from any
\* parent vector, terminates: the loop in root does not run forever.
C19_Terminates == <>(run.pc = "done")

C19_Witness ==
    /\ run.pc = "done"
    /\ run.op = "connect"
    /\ run.iterated
    /\ \E x \in Ids(nodes) : ChainEnd(nodes, x) = {}

====
